---- MODULE Spec2Model ----
(***************************************************************************)
(* Model of the STH ingestion backend: the POST /api/sth handler           *)
(* (validation, log_id normalization, findFirst-then-create dedup), the    *)
(* GET /api/sth/:logId handler (latest STH of a log) and the GET           *)
(* /api/stats handler (counts, histograms, data range, ingestion rates,    *)
(* cross-monitor consistency), all over the "sths" table.                  *)
(*                                                                         *)
(* Strings are TLA+ strings (Len and \o act on them as on JS strings of    *)
(* ASCII characters).  Instants are integers, milliseconds on one clock:   *)
(* the clock that new Date() and the store's CURRENT_TIMESTAMP(3) read.    *)
(***************************************************************************)
EXTENDS Integers, Sequences, FiniteSets, TLC

VARIABLES
    apiKey,     \* process.env.MONITOR_API_KEY
    clock,      \* the current instant (ms)
    store,      \* table "sths": the rows in insertion (id) order
    pc,         \* per POST request: "idle", "recv", "create", "replied"
    req,        \* per POST request: the request in flight
    resp,       \* per POST request: the response, until the exchange ends
    getPc,      \* GET /api/sth/:logId: "idle", "recv", "replied"
    getReq,     \* its path parameter
    getResp,    \* its response
    statsPc,    \* GET /api/stats: where the handler stands
    st,         \* its locals
    report,     \* its response
    overlaps,   \* submissions in flight at some time during the snapshot
    normIn,     \* an identifier handed to the normalization rule
    normOut     \* what each normalization site made of it

vars == <<apiKey, clock, store, pc, req, resp, getPc, getReq, getResp,
          statsPc, st, report, overlaps, normIn, normOut>>

submitVars == <<pc, req, resp>>
getVars    == <<getPc, getReq, getResp>>
statsVars  == <<statsPc, st, report, overlaps>>
normVars   == <<normIn, normOut>>

-----------------------------------------------------------------------------
(* Bounds of the model *)

\* rows the table may hold: a submission arrives only while the rows stored
\* and the submissions in flight are fewer
MaxRows == 2
\* submissions that may be in flight while one snapshot is computed
MaxOverlap == 1
\* longest identifier handed to the normalization rule on its own
MaxLen == 5

-----------------------------------------------------------------------------
(* JSON / JS values of a request *)

JStr(s)    == [t |-> "string", v |-> s]
JNum(n)    == [t |-> "number", v |-> n]
JNull      == [t |-> "null"]
JUndefined == [t |-> "undefined"]

\* JS ToBoolean, as `!x` uses it
Truthy(x) ==
    CASE x.t = "string" -> x.v # ""
      [] x.t = "number" -> x.v # 0
      [] OTHER          -> FALSE

\* JS `x == null`: true of null and undefined only
LooseNull(x) == x.t \in {"null", "undefined"}

None == [t |-> "none"]

-----------------------------------------------------------------------------
(* Identifier normalization *)

RECURSIVE Repeat(_, _)
\* String.prototype.repeat / SQL REPEAT
Repeat(s, n) == IF n <= 0 THEN "" ELSE s \o Repeat(s, n - 1)

\* mutant: the outer "% 4" forgotten, four pad characters on a full length
NormalizeLogIdAlwaysPads(log_id) ==
    log_id \o Repeat("=", 4 - (Len(log_id) % 4))

\* mutant: no padding at all
NormalizeLogIdRaw(log_id) == log_id

\* sth.ts:127-129
NormalizeLogId(log_id) ==
    LET pad == (4 - (Len(log_id) % 4)) % 4
    IN  IF pad # 0 THEN log_id \o Repeat("=", pad) ELSE log_id

\* decodeURIComponent of one token of the path parameter: an escape or a
\* literal character
DecodeToken(tok) ==
    CASE tok = "%3D" -> "="
      [] tok = "%41" -> "A"
      [] OTHER       -> tok

RECURSIVE DecodeURIComponent(_)
\* the path parameter is a sequence of tokens
DecodeURIComponent(param) ==
    IF param = <<>> THEN ""
    ELSE DecodeToken(Head(param)) \o DecodeURIComponent(Tail(param))

\* sth.ts:186-189, after the decoding
NormalizeGetLogId(decoded) ==
    LET getPad == (4 - (Len(decoded) % 4)) % 4
    IN  IF getPad # 0 THEN decoded \o Repeat("=", getPad) ELSE decoded

\* migration.sql: UPDATE sths SET log_id = ... WHERE LENGTH(log_id) % 4 != 0
MigrateLogId(log_id) ==
    IF Len(log_id) % 4 # 0
    THEN log_id \o Repeat("=", (4 - (Len(log_id) % 4)) % 4)
    ELSE log_id

-----------------------------------------------------------------------------
(* BigInt / Number conversions *)

\* Number(bigint): the stored value came from BigInt(x) of a JSON number x,
\* a double already, so it is an integer a double holds exactly and Number
\* gives it back unchanged
ToNumber(b) == b

\* BigInt(number) of an integral JSON number
ToBigInt(x) == x.v

-----------------------------------------------------------------------------
(* The table *)

Row(id, logId, treeSize, rootHash, timestamp, monitorId, storedAt) ==
    [id |-> id, logId |-> logId, treeSize |-> treeSize, rootHash |-> rootHash,
     timestamp |-> timestamp, monitorId |-> monitorId, storedAt |-> storedAt]

Rows == {store[i] : i \in 1..Len(store)}

\* prisma.sth.create: id SERIAL, stored_at DEFAULT CURRENT_TIMESTAMP
CreateRow(data) ==
    Row(Len(store) + 1, data.logId, data.treeSize, data.rootHash,
        data.timestamp, data.monitorId, clock)

\* WHERE log_id = .. AND tree_size = .. AND root_hash = ..
MatchTriple(logId, treeSize, rootHash) ==
    {r \in Rows : r.logId = logId /\ r.treeSize = treeSize /\ r.rootHash = rootHash}

\* ORDER BY stored_at DESC LIMIT 1 over a set of rows: any row of greatest
\* stored_at (the order among equal stored_at is the store's)
LatestOf(rs) == {r \in rs : \A o \in rs : o.storedAt <= r.storedAt}

\* ORDER BY stored_at ASC LIMIT 1
OldestOf(rs) == {r \in rs : \A o \in rs : r.storedAt <= o.storedAt}

\* sth.ts:212-222
serializeSth(sth) ==
    [id |-> sth.id, log_id |-> sth.logId, tree_size |-> ToNumber(sth.treeSize),
     root_hash |-> sth.rootHash, timestamp |-> ToNumber(sth.timestamp),
     monitor_id |-> sth.monitorId, stored_at |-> sth.storedAt]

-----------------------------------------------------------------------------
(* Inputs *)

Procs == {1, 2}

ConfiguredKey == "k"
NoKey == "undefined"

\* Authorization headers: the right bearer token, a wrong one, none
GoodAuth == JStr("Bearer " \o ConfiguredKey)
Headers == {GoodAuth, JStr("Bearer x"), JUndefined}

Body(log_id, tree_size, root_hash, timestamp, monitor_id) ==
    [log_id |-> log_id, tree_size |-> tree_size, root_hash |-> root_hash,
     timestamp |-> timestamp, monitor_id |-> monitor_id]

\* complete submissions: an identifier without padding, with it and with
\* one pad character too many; two reporters with their own claimed
\* timestamps (the later reporter claims the earlier time)
RawLogIds  == {"AAA", "AAA=", "AAA=="}
RootHashes == {"h1", "h2"}
Reporters  == {<<"m1", 2000>>, <<"m2", 1000>>}

\* a complete submission whose numbers are 0
ZeroBody == Body(JStr("AAA="), JNum(0), JStr("h1"), JNum(0), JStr("m1"))

ValidBodies ==
    {Body(JStr(l), JNum(10), JStr(h), JNum(rp[2]), JStr(rp[1])) :
        l \in RawLogIds, h \in RootHashes, rp \in Reporters}
    \cup {ZeroBody}

BaseBody == Body(JStr("AAA="), JNum(10), JStr("h1"), JNum(2000), JStr("m1"))

Fields == {"log_id", "tree_size", "root_hash", "timestamp", "monitor_id"}

\* one field absent, null or empty
DefectiveBodies ==
    {[BaseBody EXCEPT ![f] = x] : f \in Fields, x \in {JNull, JUndefined}}
    \cup {[BaseBody EXCEPT ![f] = JStr("")] : f \in {"log_id", "root_hash", "monitor_id"}}

Requests ==
    {[auth |-> GoodAuth, body |-> b] : b \in ValidBodies \cup DefectiveBodies}
    \cup {[auth |-> h, body |-> BaseBody] : h \in Headers}

\* the submissions that race each other: one triple from two reporters,
\* padded and not, another root hash, and an incomplete one
RaceRequests ==
    {[auth |-> GoodAuth, body |-> b] :
        b \in {BaseBody,
               Body(JStr("AAA"), JNum(10), JStr("h1"), JNum(1000), JStr("m2")),
               Body(JStr("AAA="), JNum(10), JStr("h2"), JNum(1000), JStr("m2")),
               [BaseBody EXCEPT !.root_hash = JNull]}}

\* the submissions that arrive while a snapshot is computed: two reporters
\* of one log, a second log
ConcurrentRequests ==
    {[auth |-> GoodAuth, body |-> b] :
        b \in {BaseBody,
               Body(JStr("AAA"), JNum(10), JStr("h2"), JNum(1000), JStr("m2")),
               Body(JStr("AAA=="), JNum(10), JStr("h1"), JNum(2000), JStr("m1"))}}

\* path parameters of the lookup
LookupParams ==
    {<<"A", "A", "A">>, <<"A", "A", "A", "=">>, <<"A", "A", "A", "%3D">>,
     <<"A", "A", "A", "=", "=">>, <<"B", "B", "B", "B">>}

\* instants the clock may move to
Second == 1000
Minute == 60 * Second
Hour   == 60 * Minute
Instants == {0, 20 * Minute, 24 * Hour}

-----------------------------------------------------------------------------
(* POST /api/sth *)

Reply(status, body) == [status |-> status, body |-> body]

InFlight == {q \in Procs : pc[q] \in {"recv", "create"}}

\* the request reaches the handler
SubmitArrive(p, r) ==
    /\ pc[p] = "idle"
    /\ Len(store) + Cardinality(InFlight) < MaxRows
    /\ statsPc \notin {"idle", "replied"} => overlaps < MaxOverlap
    /\ pc' = [pc EXCEPT ![p] = "recv"]
    /\ req' = [req EXCEPT ![p] = r]
    /\ overlaps' = IF statsPc \in {"idle", "replied"} THEN overlaps ELSE overlaps + 1
    /\ UNCHANGED <<apiKey, clock, store, resp, getVars, statsPc, st, report, normVars>>

\* mutant: the numbers tested for truthiness, so that 0 counts as missing
MissingFieldsFalsy(b) ==
    \/ ~Truthy(b.log_id)
    \/ ~Truthy(b.tree_size)
    \/ ~Truthy(b.root_hash)
    \/ ~Truthy(b.timestamp)
    \/ ~Truthy(b.monitor_id)

\* sth.ts:121
MissingFields(b) ==
    \/ ~Truthy(b.log_id)
    \/ LooseNull(b.tree_size)
    \/ ~Truthy(b.root_hash)
    \/ LooseNull(b.timestamp)
    \/ ~Truthy(b.monitor_id)

\* sth.ts:113
Unauthorized(auth, key) == ~Truthy(auth) \/ auth # JStr("Bearer " \o key)

\* sth.ts:147-153
CreateData(b) ==
    [logId |-> NormalizeLogId(b.log_id.v), treeSize |-> ToBigInt(b.tree_size),
     rootHash |-> b.root_hash.v, timestamp |-> ToBigInt(b.timestamp),
     monitorId |-> b.monitor_id.v]

\* mutant: the reporter made part of the identity
ExistingOfMonitor(b) ==
    {r \in MatchTriple(NormalizeLogId(b.log_id.v), ToBigInt(b.tree_size), b.root_hash.v) :
        r.monitorId = b.monitor_id.v}

\* sth.ts:132-138: the rows the findFirst may return
Existing(b) ==
    MatchTriple(NormalizeLogId(b.log_id.v), ToBigInt(b.tree_size), b.root_hash.v)

\* sth.ts:105-144: the handler up to its reply or to the create
SubmitHandle(p) ==
    /\ pc[p] = "recv"
    /\ LET r == req[p] IN
       IF apiKey = NoKey
       THEN /\ resp' = [resp EXCEPT ![p] = Reply(500, None)]
            /\ pc' = [pc EXCEPT ![p] = "replied"]
       ELSE IF Unauthorized(r.auth, apiKey)
       THEN /\ resp' = [resp EXCEPT ![p] = Reply(401, None)]
            /\ pc' = [pc EXCEPT ![p] = "replied"]
       ELSE IF MissingFields(r.body)
       THEN /\ resp' = [resp EXCEPT ![p] = Reply(400, None)]
            /\ pc' = [pc EXCEPT ![p] = "replied"]
       ELSE IF Existing(r.body) # {}
       THEN \E existing \in Existing(r.body) :
               /\ resp' = [resp EXCEPT ![p] = Reply(200, serializeSth(existing))]
               /\ pc' = [pc EXCEPT ![p] = "replied"]
       ELSE /\ pc' = [pc EXCEPT ![p] = "create"]
            /\ UNCHANGED resp
    /\ UNCHANGED <<apiKey, clock, store, req, getVars, statsVars, normVars>>

\* mutant: a unique constraint on the triple, the insert of a second row a no-op
InsertUnique(sth) ==
    IF MatchTriple(sth.logId, sth.treeSize, sth.rootHash) # {} THEN store
    ELSE Append(store, sth)

\* mutant: an upsert keyed by log_id, the row of the log overwritten
InsertUpsert(sth) ==
    IF \E i \in 1..Len(store) : store[i].logId = sth.logId
    THEN [store EXCEPT ![CHOOSE i \in 1..Len(store) : store[i].logId = sth.logId] = sth]
    ELSE Append(store, sth)

\* prisma.sth.create: the table after the insert
Insert(sth) == Append(store, sth)

\* sth.ts:146-157
SubmitCreate(p) ==
    /\ pc[p] = "create"
    /\ LET sth == CreateRow(CreateData(req[p].body)) IN
       /\ store' = Insert(sth)
       /\ resp' = [resp EXCEPT ![p] = Reply(201, serializeSth(sth))]
    /\ pc' = [pc EXCEPT ![p] = "replied"]
    /\ UNCHANGED <<apiKey, clock, req, getVars, statsVars, normVars>>

\* the exchange ends
SubmitDone(p) ==
    /\ pc[p] = "replied"
    /\ pc' = [pc EXCEPT ![p] = "idle"]
    /\ req' = [req EXCEPT ![p] = None]
    /\ resp' = [resp EXCEPT ![p] = None]
    /\ UNCHANGED <<apiKey, clock, store, getVars, statsVars, normVars>>

-----------------------------------------------------------------------------
(* GET /api/sth/:logId *)

LatestArrive(param) ==
    /\ getPc = "idle"
    /\ getPc' = "recv"
    /\ getReq' = param
    /\ UNCHANGED <<apiKey, clock, store, getResp, submitVars, statsVars, normVars>>

\* mutant: ordered by the claimed timestamp
LatestForLogByTimestamp(logId) ==
    {r \in Rows : r.logId = logId /\ \A o \in Rows : o.logId = logId => o.timestamp <= r.timestamp}

\* sth.ts:191-194: the rows the findFirst may return
LatestForLog(logId) == LatestOf({r \in Rows : r.logId = logId})

\* sth.ts:185-209
LatestHandle ==
    /\ getPc = "recv"
    /\ LET logId == NormalizeGetLogId(DecodeURIComponent(getReq))
           found == LatestForLog(logId)
       IN  IF found = {}
           THEN getResp' = Reply(404, None)
           ELSE \E sth \in found :
                   getResp' = Reply(200, [log_id |-> sth.logId,
                                           tree_size |-> ToNumber(sth.treeSize),
                                           root_hash |-> sth.rootHash,
                                           timestamp |-> ToNumber(sth.timestamp)])
    /\ getPc' = "replied"
    /\ UNCHANGED <<apiKey, clock, store, getReq, submitVars, statsVars, normVars>>

LatestDone ==
    /\ getPc = "replied"
    /\ getPc' = "idle"
    /\ getReq' = None
    /\ getResp' = None
    /\ UNCHANGED <<apiKey, clock, store, submitVars, statsVars, normVars>>

-----------------------------------------------------------------------------
(* GET /api/stats *)

Day == 24 * Hour

\* the histogram sizes: the loops of stats.ts:143 and stats.ts:157
HourlyCount  == 24
FiveMinCount == 12
FiveMin == 5 * Minute

Max(S) == CHOOSE x \in S : \A y \in S : y <= x
Min(S) == CHOOSE x \in S : \A y \in S : x <= y

\* Math.round(a / b) for b > 0: the nearest integer, halves upwards
RoundDiv(a, b) == (2 * a + b) \div (2 * b)

\* prisma.sth.count({ where: { storedAt: { gte } } })
CountSince(gte) == Cardinality({r \in Rows : r.storedAt >= gte})

\* mutant: the upper end included
CountBetweenInclusive(gte, lt) ==
    Cardinality({r \in Rows : r.storedAt >= gte /\ r.storedAt <= lt})

\* prisma.sth.count({ where: { storedAt: { gte, lt } } })
CountBetween(gte, lt) == Cardinality({r \in Rows : r.storedAt >= gte /\ r.storedAt < lt})

\* stats.ts:42-47: groupBy logId with _count, _min, _max
GroupByLog ==
    {[logId |-> l,
      count |-> Cardinality({r \in Rows : r.logId = l}),
      minStoredAt |-> Min({r.storedAt : r \in {x \in Rows : x.logId = l}}),
      maxStoredAt |-> Max({r.storedAt : r \in {x \in Rows : x.logId = l}}),
      minTreeSize |-> Min({r.treeSize : r \in {x \in Rows : x.logId = l}}),
      maxTreeSize |-> Max({r.treeSize : r \in {x \in Rows : x.logId = l}})] :
        l \in {r.logId : r \in Rows}}

\* stats.ts:48-53 and stats.ts:73-78: groupBy monitorId over the rows rs
GroupByMonitor(rs) ==
    {[monitorId |-> m,
      count |-> Cardinality({r \in rs : r.monitorId = m}),
      minStoredAt |-> Min({r.storedAt : r \in {x \in rs : x.monitorId = m}}),
      maxStoredAt |-> Max({r.storedAt : r \in {x \in rs : x.monitorId = m}})] :
        m \in {r.monitorId : r \in rs}}

RowsOfLog(l) == {r \in Rows : r.logId = l}

\* the locals before the handler has run
StIdle ==
    [now |-> 0, totalSths |-> 0, last1h |-> 0, last24h |-> 0, lastWeek |-> 0,
     logGroups |-> {}, monitorGroups |-> {}, oldestSth |-> None, newestSth |-> None,
     todo |-> {}, logs |-> {}, i |-> 0, hourlyBuckets |-> <<>>, fiveMinBuckets |-> <<>>,
     cur |-> None, consistency |-> {}]

otherVars == <<apiKey, clock, store, submitVars, getVars, normVars>>

\* stats.ts:21-25
StatsArrive ==
    /\ statsPc = "idle"
    /\ Cardinality(InFlight) <= MaxOverlap
    /\ statsPc' = "totalSths"
    /\ st' = [StIdle EXCEPT !.now = clock]
    /\ overlaps' = Cardinality(InFlight)
    /\ UNCHANGED <<report, otherVars>>

\* stats.ts:38
StatsCountTotal ==
    /\ statsPc = "totalSths"
    /\ st' = [st EXCEPT !.totalSths = Cardinality(Rows)]
    /\ statsPc' = "last1h"
    /\ UNCHANGED <<report, overlaps, otherVars>>

\* stats.ts:39
StatsCountLast1h ==
    /\ statsPc = "last1h"
    /\ st' = [st EXCEPT !.last1h = CountSince(st.now - Hour)]
    /\ statsPc' = "last24h"
    /\ UNCHANGED <<report, overlaps, otherVars>>

\* stats.ts:40
StatsCountLast24h ==
    /\ statsPc = "last24h"
    /\ st' = [st EXCEPT !.last24h = CountSince(st.now - Day)]
    /\ statsPc' = "lastWeek"
    /\ UNCHANGED <<report, overlaps, otherVars>>

\* stats.ts:41
StatsCountLastWeek ==
    /\ statsPc = "lastWeek"
    /\ st' = [st EXCEPT !.lastWeek = CountSince(st.now - 7 * Day)]
    /\ statsPc' = "logGroups"
    /\ UNCHANGED <<report, overlaps, otherVars>>

\* stats.ts:42-47
StatsLogGroups ==
    /\ statsPc = "logGroups"
    /\ st' = [st EXCEPT !.logGroups = GroupByLog]
    /\ statsPc' = "monitorGroups"
    /\ UNCHANGED <<report, overlaps, otherVars>>

\* stats.ts:48-53
StatsMonitorGroups ==
    /\ statsPc = "monitorGroups"
    /\ st' = [st EXCEPT !.monitorGroups = GroupByMonitor(Rows)]
    /\ statsPc' = "oldestSth"
    /\ UNCHANGED <<report, overlaps, otherVars>>

\* stats.ts:54
StatsOldest ==
    /\ statsPc = "oldestSth"
    /\ IF Rows = {} THEN st' = [st EXCEPT !.oldestSth = None]
       ELSE \E sth \in OldestOf(Rows) : st' = [st EXCEPT !.oldestSth = sth]
    /\ statsPc' = "newestSth"
    /\ UNCHANGED <<report, overlaps, otherVars>>

\* stats.ts:55, and on to the per-log queries of stats.ts:59
StatsNewest ==
    /\ statsPc = "newestSth"
    /\ \E found \in (IF Rows = {} THEN {None} ELSE LatestOf(Rows)) :
          st' = [st EXCEPT !.newestSth = found,
                           !.todo = {g.logId : g \in st.logGroups},
                           !.i = HourlyCount - 1]
    /\ statsPc' = IF st.logGroups = {} THEN "hourly" ELSE "logs"
    /\ UNCHANGED <<report, overlaps, otherVars>>

\* mutant: the seconds truncated
StalenessFloor(now, lastSeen) == (now - lastSeen) \div Second

\* stats.ts:85-89 and stats.ts:136-138
Staleness(now, lastSeen) == RoundDiv(now - lastSeen, Second)

\* stats.ts:108-126, with the fields the grouped queries feed
LogEntry(group, monitors, now) ==
    [log_id |-> group.logId,
     sth_count |-> group.count,
     tree_growth_total |-> ToNumber(group.maxTreeSize) - ToNumber(group.minTreeSize),
     first_seen |-> group.minStoredAt,
     last_seen |-> group.maxStoredAt,
     staleness_seconds |-> Staleness(now, group.maxStoredAt),
     monitor_count |-> Cardinality(monitors),
     monitors |-> {[monitor_id |-> m.monitorId, sth_count |-> m.count,
                    last_seen |-> m.maxStoredAt] : m \in monitors}]

\* stats.ts:60-127 for one log: the per-monitor groupBy of stats.ts:73-78
StatsLogDetail ==
    /\ statsPc = "logs"
    /\ LET l == CHOOSE x \in st.todo : TRUE
           group == CHOOSE g \in st.logGroups : g.logId = l
           monitors == GroupByMonitor(RowsOfLog(l))
       IN  /\ st' = [st EXCEPT !.logs = @ \cup {LogEntry(group, monitors, st.now)},
                               !.todo = @ \ {l}]
           /\ statsPc' = IF st.todo = {l} THEN "hourly" ELSE "logs"
    /\ UNCHANGED <<report, overlaps, otherVars>>

\* toISOString().slice(0, 13) + ":00Z": the hour the instant lies in
HourLabel(t) == t - (t % Hour)

\* toISOString().slice(11, 16) + "Z": the minute of the day
MinuteLabel(t) == (t % Day) \div Minute

\* stats.ts:143-153, one turn of the loop
StatsHourlyBucket ==
    /\ statsPc = "hourly"
    /\ LET bucketStart == st.now - (st.i + 1) * Hour
           bucketEnd == st.now - st.i * Hour
           count == CountBetween(bucketStart, bucketEnd)
       IN  st' = [st EXCEPT
                    !.hourlyBuckets = Append(@, [hour |-> HourLabel(bucketStart), count |-> count]),
                    !.i = IF st.i = 0 THEN FiveMinCount - 1 ELSE st.i - 1]
    /\ statsPc' = IF st.i = 0 THEN "fiveMin" ELSE "hourly"
    /\ UNCHANGED <<report, overlaps, otherVars>>

\* stats.ts:157-167, one turn of the loop
StatsFiveMinBucket ==
    /\ statsPc = "fiveMin"
    /\ LET bucketStart == st.now - (st.i + 1) * FiveMin
           bucketEnd == st.now - st.i * FiveMin
           count == CountBetween(bucketStart, bucketEnd)
       IN  st' = [st EXCEPT
                    !.fiveMinBuckets = Append(@, [time |-> MinuteLabel(bucketStart), count |-> count]),
                    !.i = IF st.i = 0 THEN 0 ELSE st.i - 1,
                    !.todo = IF st.i = 0 THEN {g.logId : g \in st.logGroups} ELSE @]
    /\ statsPc' = IF st.i > 0 THEN "fiveMin"
                  ELSE IF st.logGroups = {} THEN "respond" ELSE "monitorIds"
    /\ UNCHANGED <<report, overlaps, otherVars>>

\* stats.ts:173-176 for one log
StatsMonitorIds ==
    /\ statsPc = "monitorIds"
    /\ LET l == CHOOSE x \in st.todo : TRUE
           monitorIds == {r.monitorId : r \in RowsOfLog(l)}
       IN  st' = [st EXCEPT !.cur = [logId |-> l, monitorIds |-> monitorIds,
                                     latestPerMonitor |-> {}],
                            !.todo = @ \ {l}]
    /\ statsPc' = "latestPerMonitor"
    /\ UNCHANGED <<report, overlaps, otherVars>>

\* mutant: the root hashes of all tree sizes compared with each other
byTreeSizeMixed(valid) ==
    [n \in {e.tree_size : e \in valid} |-> {e.root_hash : e \in valid}]

\* stats.ts:203-209
byTreeSize(valid) ==
    [n \in {e.tree_size : e \in valid} |->
        {e.root_hash : e \in {x \in valid : x.tree_size = n}}]

\* stats.ts:210
hasConflict(valid) ==
    \E n \in DOMAIN byTreeSize(valid) : Cardinality(byTreeSize(valid)[n]) > 1

\* stats.ts:212-217
ConsistencyEntry(logId, valid) ==
    [log_id |-> logId, monitor_count |-> Cardinality(valid),
     consistent |-> ~hasConflict(valid), latest_per_monitor |-> valid]

\* mutant: the orderBy forgotten, any row of the monitor returned
AnyOfMonitor(l, m) == {r \in RowsOfLog(l) : r.monitorId = m}

\* stats.ts:180-183: the rows the findFirst may return
LatestOfMonitor(l, m) == LatestOf({r \in RowsOfLog(l) : r.monitorId = m})

\* stats.ts:179-192 for one monitor, and stats.ts:195-217 after the last
StatsLatestPerMonitor ==
    /\ statsPc = "latestPerMonitor"
    /\ LET m == CHOOSE x \in st.cur.monitorIds : TRUE
           rest == st.cur.monitorIds \ {m}
       IN  \E sth \in LatestOfMonitor(st.cur.logId, m) :
              LET entry == [monitor_id |-> sth.monitorId,
                            tree_size |-> ToNumber(sth.treeSize),
                            root_hash |-> sth.rootHash,
                            timestamp |-> ToNumber(sth.timestamp)]
                  valid == st.cur.latestPerMonitor \cup {entry}
              IN  IF rest # {}
                  THEN /\ st' = [st EXCEPT !.cur.monitorIds = rest,
                                           !.cur.latestPerMonitor = valid]
                       /\ statsPc' = "latestPerMonitor"
                  ELSE /\ st' = [st EXCEPT
                                   !.cur = None,
                                   !.consistency = @ \cup {ConsistencyEntry(st.cur.logId, valid)}]
                       /\ statsPc' = IF st.todo = {} THEN "respond" ELSE "monitorIds"
    /\ UNCHANGED <<report, overlaps, otherVars>>

\* mutant: the span truncated to whole hours
SpanHoursFloor(oldestSth, newestSth) ==
    IF oldestSth # None /\ newestSth # None
    THEN (newestSth.storedAt - oldestSth.storedAt) \div Hour
    ELSE 0

\* stats.ts:225-230
SpanHours(oldestSth, newestSth) ==
    IF oldestSth # None /\ newestSth # None
    THEN RoundDiv(newestSth.storedAt - oldestSth.storedAt, Hour)
    ELSE 0

\* stats.ts:235-237, in hundredths: Math.round(x * 100) / 100 is kept as
\* the integer Math.round(x * 100)
PerHour(totalSths, span_hours) ==
    IF totalSths > 0 /\ span_hours > 0 THEN RoundDiv(totalSths * 100, span_hours) ELSE 0

\* stats.ts:238-240, in hundredths
PerDay(totalSths, span_hours) ==
    IF totalSths > 0 /\ span_hours > 0 THEN RoundDiv(totalSths * 24 * 100, span_hours) ELSE 0

StoredAtOrNull(sth) == IF sth = None THEN None ELSE [at |-> sth.storedAt]

\* stats.ts:131-139
MonitorEntry(m, now) ==
    [monitor_id |-> m.monitorId, sth_count |-> m.count, first_seen |-> m.minStoredAt,
     last_seen |-> m.maxStoredAt, staleness_seconds |-> Staleness(now, m.maxStoredAt)]

\* stats.ts:221-259
StatsRespond ==
    /\ statsPc = "respond"
    /\ LET span_hours == SpanHours(st.oldestSth, st.newestSth) IN
       report' =
         [now |-> st.now,
          total_sths |-> st.totalSths,
          unique_logs |-> Cardinality(st.logGroups),
          unique_monitors |-> Cardinality(st.monitorGroups),
          data_range |-> [oldest_stored_at |-> StoredAtOrNull(st.oldestSth),
                          newest_stored_at |-> StoredAtOrNull(st.newestSth),
                          span_hours |-> span_hours],
          ingestion_rates |-> [per_hour |-> PerHour(st.totalSths, span_hours),
                               per_day |-> PerDay(st.totalSths, span_hours)],
          recent_activity |-> [last_1h |-> st.last1h, last_24h |-> st.last24h,
                               last_7d |-> st.lastWeek],
          hourly_histogram |-> st.hourlyBuckets,
          five_min_histogram |-> st.fiveMinBuckets,
          logs |-> st.logs,
          monitors |-> {MonitorEntry(m, st.now) : m \in st.monitorGroups},
          consistency |-> st.consistency]
    /\ statsPc' = "replied"
    /\ st' = StIdle
    /\ UNCHANGED <<overlaps, otherVars>>

StatsDone ==
    /\ statsPc = "replied"
    /\ statsPc' = "idle"
    /\ report' = None
    /\ overlaps' = 0
    /\ UNCHANGED <<st, otherVars>>

StatsStep ==
    \/ StatsCountTotal
    \/ StatsCountLast1h
    \/ StatsCountLast24h
    \/ StatsCountLastWeek
    \/ StatsLogGroups
    \/ StatsMonitorGroups
    \/ StatsOldest
    \/ StatsNewest
    \/ StatsLogDetail
    \/ StatsHourlyBucket
    \/ StatsFiveMinBucket
    \/ StatsMonitorIds
    \/ StatsLatestPerMonitor
    \/ StatsRespond
    \/ StatsDone

-----------------------------------------------------------------------------
(* Time *)

Tick ==
    /\ \E t \in Instants : t > clock /\ clock' = t
    /\ UNCHANGED <<apiKey, store, submitVars, getVars, statsVars, normVars>>

-----------------------------------------------------------------------------
(* The normalization rule on its own *)

Alphabet == {"A", "="}

RECURSIVE StringsOfLen(_)
StringsOfLen(n) ==
    IF n = 0 THEN {""} ELSE {s \o c : s \in StringsOfLen(n - 1), c \in Alphabet}

Identifiers == UNION {StringsOfLen(n) : n \in 0..MaxLen}

\* each site applied once and twice to the identifier
NormalizeEverywhere ==
    /\ normIn # None
    /\ normOut = None
    /\ normOut' = [post |-> NormalizeLogId(normIn.v),
                   postTwice |-> NormalizeLogId(NormalizeLogId(normIn.v)),
                   get |-> NormalizeGetLogId(normIn.v),
                   getTwice |-> NormalizeGetLogId(NormalizeGetLogId(normIn.v)),
                   migration |-> MigrateLogId(normIn.v),
                   migrationTwice |-> MigrateLogId(MigrateLogId(normIn.v))]
    /\ UNCHANGED <<apiKey, clock, store, submitVars, getVars, statsVars, normIn>>

-----------------------------------------------------------------------------
(* Specifications *)

InitEnv ==
    /\ clock = 0
    /\ store = <<>>
    /\ pc = [p \in Procs |-> "idle"]
    /\ req = [p \in Procs |-> None]
    /\ resp = [p \in Procs |-> None]
    /\ getPc = "idle"
    /\ getReq = None
    /\ getResp = None
    /\ statsPc = "idle"
    /\ st = StIdle
    /\ report = None
    /\ overlaps = 0

Init ==
    /\ apiKey \in {ConfiguredKey, NoKey}
    /\ InitEnv
    /\ normIn = None
    /\ normOut = None

\* no request is in flight
Quiet ==
    /\ \A q \in Procs : pc[q] = "idle"
    /\ getPc = "idle"
    /\ statsPc = "idle"

\* requests that do not overlap in time: one arrives only when no other is
\* in flight
NextSeq ==
    \/ \E p \in Procs, r \in Requests : Quiet /\ SubmitArrive(p, r)
    \/ \E p \in Procs : SubmitHandle(p)
    \/ \E p \in Procs : SubmitCreate(p)
    \/ \E p \in Procs : SubmitDone(p)
    \/ \E param \in LookupParams : Quiet /\ LatestArrive(param)
    \/ LatestHandle
    \/ LatestDone
    \/ Quiet /\ StatsArrive
    \/ StatsStep
    \/ Tick

SpecSeq == Init /\ [][NextSeq]_vars

\* two submissions racing each other
NextRace ==
    \/ \E p \in Procs, r \in RaceRequests : SubmitArrive(p, r)
    \/ \E p \in Procs : SubmitHandle(p)
    \/ \E p \in Procs : SubmitCreate(p)
    \/ \E p \in Procs : SubmitDone(p)
    \/ Tick

SpecRace == Init /\ [][NextRace]_vars

\* a snapshot with submissions arriving while it is computed
Next ==
    \/ \E r \in ConcurrentRequests : SubmitArrive(1, r)
    \/ SubmitHandle(1)
    \/ SubmitCreate(1)
    \/ SubmitDone(1)
    \/ StatsArrive
    \/ StatsStep
    \/ Tick

Spec == Init /\ [][Next]_vars

\* the normalization rule applied to every identifier up to MaxLen
InitNorm ==
    /\ apiKey = ConfiguredKey
    /\ InitEnv
    /\ normIn \in {JStr(s) : s \in Identifiers}
    /\ normOut = None

NextNorm == NormalizeEverywhere

SpecNorm == InitNorm /\ [][NextNorm]_vars

\* rows the table may hold when a log's history is followed
MaxHistory == 4

\* one log reported by two monitors over time: m1 and m2 disagree on tree
\* size 10, m2 also repeats m1's attestation of it, and each reports a
\* larger tree later
HistoryRequests ==
    {[auth |-> GoodAuth, body |-> b] :
        b \in {BaseBody,
               Body(JStr("AAA="), JNum(10), JStr("h2"), JNum(1000), JStr("m2")),
               Body(JStr("AAA="), JNum(10), JStr("h1"), JNum(1000), JStr("m2")),
               Body(JStr("AAA="), JNum(20), JStr("h1"), JNum(2000), JStr("m1")),
               Body(JStr("AAA="), JNum(30), JStr("h2"), JNum(1000), JStr("m2"))}}

\* instants half a second and ninety seconds apart
FineInstants == {0, Second \div 2, 90 * Second + Second \div 2}

\* the request reaches the handler, the table within the given limit
SubmitArriveWithin(p, r, limit) ==
    /\ pc[p] = "idle"
    /\ Len(store) < limit
    /\ pc' = [pc EXCEPT ![p] = "recv"]
    /\ req' = [req EXCEPT ![p] = r]
    /\ UNCHANGED <<apiKey, clock, store, resp, getVars, statsVars, normVars>>

TickFine ==
    /\ \E t \in FineInstants : t > clock /\ clock' = t
    /\ UNCHANGED <<apiKey, store, submitVars, getVars, statsVars, normVars>>

InitHist ==
    /\ apiKey = ConfiguredKey
    /\ InitEnv
    /\ normIn = None
    /\ normOut = None

\* a log's history: submissions one after the other, a snapshot taken
\* between them, after the last one was answered.  Only the arrival of a
\* snapshot and the insert read the clock, so during a snapshot it moves
\* right after the snapshot's instant was captured or not at all.
NextHist ==
    \/ \E r \in HistoryRequests : statsPc = "idle" /\ SubmitArriveWithin(1, r, MaxHistory)
    \/ SubmitHandle(1)
    \/ SubmitCreate(1)
    \/ statsPc = "idle" /\ SubmitDone(1)
    \/ pc[1] \in {"idle", "replied"} /\ StatsArrive
    \/ StatsStep
    \/ statsPc \in {"idle", "totalSths"} /\ TickFine

SpecHist == InitHist /\ [][NextHist]_vars

-----------------------------------------------------------------------------
(* Properties *)

\* the canonical padded form of an identifier: x followed by (4 - r) pad
\* characters when r = Len(x) mod 4 is not 0, x itself otherwise
PaddedForm(x) ==
    LET r == Len(x) % 4
    IN  IF r = 0 THEN x ELSE x \o Repeat("=", 4 - r)

\* the request of p is complete and carries the configured key
Accepted(p) ==
    /\ apiKey = ConfiguredKey
    /\ req[p].auth = GoodAuth
    /\ req[p].body \in ValidBodies

\* p sends its reply in this step
Replies(p) == pc[p] \in {"recv", "create"} /\ pc'[p] = "replied"

\* positions of the rows with the identity triple of body b
SameTriple(b) ==
    {i \in 1..Len(store) :
        /\ store[i].logId = PaddedForm(b.log_id.v)
        /\ store[i].treeSize = b.tree_size.v
        /\ store[i].rootHash = b.root_hash.v}

NoDuplicateTriples(rows) ==
    \A i, j \in 1..Len(rows) :
        (/\ rows[i].logId = rows[j].logId
         /\ rows[i].treeSize = rows[j].treeSize
         /\ rows[i].rootHash = rows[j].rootHash) => i = j

C1Step ==
    \A p \in Procs :
        (Replies(p) /\ Accepted(p)) =>
            LET b == req[p].body
                same == SameTriple(b)
            IN  IF same = {}
                THEN /\ resp'[p].status = 201
                     /\ Len(store') = Len(store) + 1
                     /\ resp'[p].body.monitor_id = b.monitor_id.v
                     /\ resp'[p].body.timestamp = b.timestamp.v
                ELSE LET first == store[Min(same)]
                     IN  /\ resp'[p].status = 200
                         /\ store' = store
                         /\ resp'[p].body.id = first.id
                         /\ resp'[p].body.log_id = first.logId
                         /\ resp'[p].body.tree_size = first.treeSize
                         /\ resp'[p].body.root_hash = first.rootHash
                         /\ resp'[p].body.monitor_id = first.monitorId
                         /\ resp'[p].body.timestamp = first.timestamp
                         /\ resp'[p].body.stored_at = first.storedAt

\* C1: when submissions do not overlap in time, a complete submission is
\* reported new (201) exactly when no stored row has its (padded log_id,
\* tree_size, root_hash), and otherwise is reported a duplicate (200) with
\* the row the first submission of that triple stored, its monitor_id and
\* timestamp unchanged; the table never holds two rows with one triple.
C1_DedupSequential == [][C1Step /\ NoDuplicateTriples(store')]_vars

\* C1: a duplicate from another reporter with another claimed timestamp got
\* the first submission's row back
C1_Witness ==
    \E p \in Procs :
        /\ pc[p] = "replied"
        /\ resp[p].status = 200
        /\ resp[p].body.monitor_id # req[p].body.monitor_id.v
        /\ resp[p].body.timestamp # req[p].body.timestamp.v

\* C2: each normalization site (submission, lookup, migration) maps x to x
\* followed by (4 - r) "=" when r = Len(x) mod 4 is not 0 and to x itself
\* when r = 0; the result has a length divisible by 4 and normalizing it
\* again changes nothing.
C2_NormalizeIdempotent ==
    normOut # None =>
        LET x == normIn.v
            r == Len(x) % 4
            padded == IF r # 0 THEN x \o Repeat("=", 4 - r) ELSE x
        IN  /\ normOut.post = padded
            /\ normOut.get = padded
            /\ normOut.migration = padded
            /\ Len(normOut.post) % 4 = 0
            /\ Len(normOut.get) % 4 = 0
            /\ Len(normOut.migration) % 4 = 0
            /\ normOut.postTwice = normOut.post
            /\ normOut.getTwice = normOut.get
            /\ normOut.migrationTwice = normOut.migration

\* C2: an identifier of length 3 mod 4 got one pad character
C2_Witness ==
    /\ normOut # None
    /\ normIn.v = "AA="
    /\ normOut.post = "AA=="
    /\ normOut.postTwice = "AA=="

\* x and y differ only in trailing pad characters
PaddingOnlyDiffers(x, y) ==
    \E k \in 0..(Len(x) + Len(y)) :
        x = y \o Repeat("=", k) \/ y = x \o Repeat("=", k)

\* the multiple of 4 that a length rounds up to
PaddedLen(n) == ((n + 3) \div 4) * 4

AllLogIdsPadded(rows) == \A i \in 1..Len(rows) : Len(rows[i].logId) % 4 = 0

\* positions of the rows of b's tree_size and root_hash whose log_id stands
\* in relation R to the raw log_id of b
RelatedRows(b, R(_, _)) ==
    {i \in 1..Len(store) :
        /\ R(store[i].logId, b.log_id.v)
        /\ store[i].treeSize = b.tree_size.v
        /\ store[i].rootHash = b.root_hash.v}

MatchedAsDuplicate(p, rows) ==
    rows # {} =>
        /\ resp'[p].status = 200
        /\ resp'[p].body.id = store[Min(rows)].id

\* C3 as stated: every stored log_id has a length divisible by 4, and a
\* submission whose raw log_id differs only in trailing padding from that of
\* an earlier one with the same tree_size and root_hash is matched to the
\* earlier row and reported a duplicate.
C3_Original ==
    [][/\ AllLogIdsPadded(store')
       /\ \A p \in Procs :
            (Replies(p) /\ Accepted(p)) =>
                MatchedAsDuplicate(p, RelatedRows(req[p].body, PaddingOnlyDiffers))]_vars

SamePaddedLen(x, y) ==
    PaddingOnlyDiffers(x, y) /\ PaddedLen(Len(x)) = PaddedLen(Len(y))

\* C3 amended: every stored log_id has a length divisible by 4, and a
\* submission whose raw log_id differs from an earlier one only in trailing
\* pad characters, the two lengths rounding up to the same multiple of 4
\* ("AAA" and "AAA="), with the same tree_size and root_hash, is matched to
\* the earlier row and reported a duplicate.
C3_PaddingVariantsDeduplicated ==
    [][/\ AllLogIdsPadded(store')
       /\ \A p \in Procs :
            (Replies(p) /\ Accepted(p)) =>
                MatchedAsDuplicate(p, RelatedRows(req[p].body, SamePaddedLen))]_vars

\* C3: the unpadded "AAA" was reported a duplicate of the stored "AAA="
C3_Witness ==
    \E p \in Procs :
        /\ pc[p] = "replied"
        /\ resp[p].status = 200
        /\ req[p].body.log_id.v = "AAA"
        /\ resp[p].body.log_id = "AAA="

\* a field is absent or null
AbsentOrNull(b) == \E f \in Fields : b[f].t \in {"null", "undefined"}

\* a text field is the empty string
EmptyText(b) ==
    \E f \in {"log_id", "root_hash", "monitor_id"} : b[f].t = "string" /\ b[f].v = ""

\* p, carrying the configured key, is answered by the handler in this step
Handled(p) ==
    /\ pc[p] = "recv"
    /\ pc'[p] # "recv"
    /\ apiKey = ConfiguredKey
    /\ req[p].auth = GoodAuth

Rejected(p) == pc'[p] = "replied" /\ resp'[p].status = 400

\* C4 as stated: a submission with a field absent or null is rejected (400)
\* and the table unchanged; one with all five fields present is never
\* rejected for validation.
C4_Original ==
    [][\A p \in Procs :
          Handled(p) =>
              /\ AbsentOrNull(req[p].body) => (Rejected(p) /\ store' = store)
              /\ ~AbsentOrNull(req[p].body) => ~Rejected(p)]_vars

\* C4 amended: a submission with a field absent or null, or with an empty
\* log_id, root_hash or monitor_id, is rejected (400) and the table
\* unchanged, and it never reaches the insert; any other submission is never
\* rejected for validation.
C4_ValidationRejects ==
    [][\A p \in Procs :
          /\ Handled(p) =>
              /\ (AbsentOrNull(req[p].body) \/ EmptyText(req[p].body))
                    => (Rejected(p) /\ store' = store)
              /\ ~(AbsentOrNull(req[p].body) \/ EmptyText(req[p].body))
                    => ~Rejected(p)
          /\ pc'[p] = "create" =>
              ~(AbsentOrNull(req'[p].body) \/ EmptyText(req'[p].body))]_vars

\* C4: a submission without a tree_size was rejected while rows are stored
C4_Witness ==
    \E p \in Procs :
        /\ pc[p] = "replied"
        /\ resp[p].status = 400
        /\ req[p].body.tree_size.t = "null"
        /\ Len(store) > 0

\* the report lists this entry as a monitor's latest attestation of log l
IsLatestOfMonitor(l, x) ==
    \E r \in Rows :
        /\ r.logId = l
        /\ r.monitorId = x.monitor_id
        /\ \A o \in Rows : (o.logId = l /\ o.monitorId = x.monitor_id) => o.storedAt <= r.storedAt
        /\ x.tree_size = r.treeSize
        /\ x.root_hash = r.rootHash
        /\ x.timestamp = r.timestamp

Disagree(a, b) ==
    /\ a.monitor_id # b.monitor_id
    /\ a.tree_size = b.tree_size
    /\ a.root_hash # b.root_hash

\* C5: in a snapshot of an unchanging table, every log has one consistency
\* entry; it lists for each monitor of the log one of its attestations of
\* greatest stored_at, and consistent is false exactly when two distinct
\* monitors' listed attestations have the same tree_size and different
\* root_hash; latest attestations of different tree_size are never compared
\* and a log with one reporting monitor is consistent.
C5_ConsistencyLatestVsLatest ==
    statsPc = "replied" =>
        /\ {e.log_id : e \in report.consistency} = {r.logId : r \in Rows}
        /\ \A e \in report.consistency :
              /\ \A o \in report.consistency : o.log_id = e.log_id => o = e
              /\ {x.monitor_id : x \in e.latest_per_monitor}
                    = {r.monitorId : r \in RowsOfLog(e.log_id)}
              /\ e.monitor_count = Cardinality({r.monitorId : r \in RowsOfLog(e.log_id)})
              /\ \A x \in e.latest_per_monitor : IsLatestOfMonitor(e.log_id, x)
              /\ e.consistent =
                    ~(\E a, b \in e.latest_per_monitor : Disagree(a, b))
              /\ e.monitor_count <= 1 => e.consistent

\* C5: two monitors' latest attestations of one log share the tree_size and
\* differ in root_hash, and the log is reported inconsistent
C5_Witness ==
    /\ statsPc = "replied"
    /\ \E e \in report.consistency :
          /\ ~e.consistent
          /\ e.monitor_count = 2
          /\ \E a, b \in e.latest_per_monitor : Disagree(a, b)

\* p replies to a submission that had passed its lookup
Creates(p) == pc[p] = "create" /\ pc'[p] = "replied"

\* C6: a submission that has passed the existence lookup inserts its row and
\* reports new whatever has been stored since the lookup, so two concurrent
\* submissions of one triple that both pass the lookup both insert and both
\* report new.
C6_LookupThenInsertNotAtomic ==
    [][\A p \in Procs :
          Creates(p) =>
              /\ resp'[p].status = 201
              /\ Len(store') = Len(store) + 1
              /\ SubSeq(store', 1, Len(store)) = store
              /\ store'[Len(store')].logId = PaddedForm(req[p].body.log_id.v)
              /\ store'[Len(store')].treeSize = req[p].body.tree_size.v
              /\ store'[Len(store')].rootHash = req[p].body.root_hash.v
              /\ resp'[p].body.id = store'[Len(store')].id]_vars

\* C6: both submissions reported new and two rows hold the same triple
C6_Witness ==
    /\ \A p \in Procs : pc[p] = "replied" /\ resp[p].status = 201
    /\ resp[1].body.id # resp[2].body.id
    /\ Len(store) = 2
    /\ ~NoDuplicateTriples(store)

\* the lookup is answered in this step
Looked == getPc = "recv" /\ getPc' = "replied"

\* C7: the lookup pads the requested log_id as a submission does and
\* answers with the log_id, tree_size, root_hash and timestamp of a stored
\* row of that log of greatest stored_at, whatever the claimed timestamps;
\* it answers not-found exactly when no row of the padded log_id is stored.
C7_LatestForLog ==
    [][Looked =>
          LET logId == PaddedForm(DecodeURIComponent(getReq))
              rows == {r \in Rows : r.logId = logId}
          IN  /\ (getResp'.status = 404) = (rows = {})
              /\ rows # {} =>
                    /\ getResp'.status = 200
                    /\ \E r \in rows :
                          /\ \A o \in rows : o.storedAt <= r.storedAt
                          /\ getResp'.body.log_id = r.logId
                          /\ getResp'.body.tree_size = r.treeSize
                          /\ getResp'.body.root_hash = r.rootHash
                          /\ getResp'.body.timestamp = r.timestamp]_vars

\* C7: an unpadded lookup found the padded log and answered with the row
\* stored last, although another row of the log claims a later timestamp
C7_Witness ==
    /\ getPc = "replied"
    /\ getReq = <<"A", "A", "A">>
    /\ getResp.status = 200
    /\ getResp.body.log_id = "AAA="
    /\ \E r \in Rows :
          /\ r.logId = "AAA="
          /\ r.timestamp > getResp.body.timestamp
          /\ \E o \in Rows : o.logId = "AAA=" /\ o.storedAt > r.storedAt

RECURSIVE SumCounts(_)
SumCounts(buckets) ==
    IF buckets = <<>> THEN 0 ELSE buckets[1].count + SumCounts(Tail(buckets))

\* the stored rows whose stored_at lies in [from, to)
InWindow(from, to) ==
    Cardinality({r \in Rows : from <= r.storedAt /\ r.storedAt < to})

HistogramShape ==
    /\ Len(report.hourly_histogram) = 24
    /\ Len(report.five_min_histogram) = 12
    /\ \A k \in 1..Len(report.hourly_histogram) :
          /\ report.hourly_histogram[k].hour = HourLabel(report.now - (25 - k) * Hour)
          /\ report.hourly_histogram[k].count
                = InWindow(report.now - (25 - k) * Hour, report.now - (24 - k) * Hour)
    /\ \A k \in 1..Len(report.five_min_histogram) :
          /\ report.five_min_histogram[k].time
                = MinuteLabel(report.now - (13 - k) * 5 * Minute)
          /\ report.five_min_histogram[k].count
                = InWindow(report.now - (13 - k) * 5 * Minute,
                           report.now - (12 - k) * 5 * Minute)

\* C8 as stated: the histograms have 24 and 12 contiguous half-open
\* buckets, oldest first, and their counts sum to the report's last_24h and
\* last_1h.
C8_Original ==
    statsPc = "replied" =>
        /\ HistogramShape
        /\ SumCounts(report.hourly_histogram) = report.recent_activity.last_24h
        /\ SumCounts(report.five_min_histogram) = report.recent_activity.last_1h

\* C8: the hourly histogram has 24 entries and the 5-minute histogram 12,
\* oldest first, bucket i counting the rows stored in [now-(i+1)*w, now-i*w);
\* the hourly counts sum to the number of rows stored in [now-24h, now) and
\* the 5-minute counts to the number stored in [now-1h, now).  These sums
\* never exceed last_24h and last_1h, which have no upper end, and equal
\* them when no row is stored at or after the report's now.
C8_HistogramWindows ==
    statsPc = "replied" =>
        /\ HistogramShape
        /\ SumCounts(report.hourly_histogram) = InWindow(report.now - 24 * Hour, report.now)
        /\ SumCounts(report.five_min_histogram) = InWindow(report.now - Hour, report.now)
        /\ SumCounts(report.hourly_histogram) <= report.recent_activity.last_24h
        /\ SumCounts(report.five_min_histogram) <= report.recent_activity.last_1h
        /\ (\A r \in Rows : r.storedAt < report.now) =>
              /\ SumCounts(report.hourly_histogram) = report.recent_activity.last_24h
              /\ SumCounts(report.five_min_histogram) = report.recent_activity.last_1h

\* C8: two rows stored twenty minutes before the snapshot are counted in
\* the newest hourly bucket and in the fourth newest 5-minute bucket
C8_Witness ==
    /\ statsPc = "replied"
    /\ report.now = 20 * Minute
    /\ report.hourly_histogram[24].count = 2
    /\ report.five_min_histogram[9].count = 2
    /\ report.recent_activity.last_24h = 2
    /\ report.recent_activity.last_1h = 2

\* a step of the statistics snapshot
Snapshots == statsPc' # statsPc \/ st' # st \/ report' # report

\* C9: the table changes only in the step that inserts a new submission's
\* row, which appends one row and leaves the others as they were; a
\* duplicate or rejected submission, a lookup and every step of a snapshot
\* leave the table unchanged.
C9_OnlyInsertMutates ==
    [][/\ \/ store' = store
          \/ \E p \in Procs :
                /\ Creates(p)
                /\ resp'[p].status = 201
                /\ Len(store') = Len(store) + 1
                /\ SubSeq(store', 1, Len(store)) = store
       /\ \A p \in Procs : (Replies(p) /\ resp'[p].status # 201) => store' = store
       /\ (getPc' # getPc) => store' = store
       /\ Snapshots => store' = store]_vars

\* C9: a duplicate was answered with the stored row, and the table holds
\* that one row as it was created
C9_Witness ==
    \E p \in Procs :
        /\ pc[p] = "replied"
        /\ resp[p].status = 200
        /\ Len(store) = 1
        /\ resp[p].body.id = store[1].id
        /\ store[1].monitorId # req[p].body.monitor_id.v

\* the span between the oldest and the newest row the report names, in seconds
ReportSpanSeconds ==
    IF report.data_range.oldest_stored_at = None \/ report.data_range.newest_stored_at = None
    THEN 0
    ELSE (report.data_range.newest_stored_at.at - report.data_range.oldest_stored_at.at)
            \div Second

\* n is the integer nearest to a / b, halves up
Nearest(n, a, b) == 2 * n * b - b <= 2 * a /\ 2 * a < 2 * n * b + b

RatesZero ==
    report.ingestion_rates.per_hour = 0 /\ report.ingestion_rates.per_day = 0

\* C10 as stated: the rates are 0 when no row is stored or the span is 0,
\* and otherwise the total divided by the span in hours and in days, to
\* two decimal places.
C10_Original ==
    statsPc = "replied" =>
        /\ Rows = {} => (report.data_range.span_hours = 0 /\ RatesZero)
        /\ ReportSpanSeconds = 0 => RatesZero
        /\ (ReportSpanSeconds # 0 /\ report.total_sths > 0) =>
              /\ Nearest(report.ingestion_rates.per_hour,
                         100 * report.total_sths * 3600, ReportSpanSeconds)
              /\ Nearest(report.ingestion_rates.per_day,
                         100 * report.total_sths * 86400, ReportSpanSeconds)

\* C10: span_hours is the span between the oldest and the newest
\* stored_at rounded to the nearest whole hour, 0 without rows; the rates
\* are 0 whenever span_hours or the total is 0, so also for a span under
\* half an hour, and otherwise the total divided by span_hours and by
\* span_hours/24, to two decimal places.
C10_RatesFromRoundedSpan ==
    statsPc = "replied" =>
        /\ Rows = {} => (report.data_range.span_hours = 0 /\ RatesZero)
        /\ Nearest(report.data_range.span_hours, ReportSpanSeconds, 3600)
        /\ (report.data_range.span_hours = 0 \/ report.total_sths = 0) => RatesZero
        /\ (report.data_range.span_hours > 0 /\ report.total_sths > 0) =>
              /\ Nearest(report.ingestion_rates.per_hour,
                         100 * report.total_sths, report.data_range.span_hours)
              /\ Nearest(report.ingestion_rates.per_day,
                         100 * report.total_sths * 24, report.data_range.span_hours)

\* C10: two rows stored a day apart give 0.08 per hour and 2 per day
C10_Witness ==
    /\ statsPc = "replied"
    /\ report.total_sths = 2
    /\ report.data_range.span_hours = 24
    /\ report.ingestion_rates.per_hour = 8
    /\ report.ingestion_rates.per_day = 200

\* the greatest stored_at of a non-empty set of rows
LastStored(rs) == Max({r.storedAt : r \in rs})

\* the entry's staleness_seconds is the whole number of seconds nearest to
\* now - last, and 90 when the rows' last stored_at is now - 90s
StaleBy(e, last) ==
    /\ e.last_seen = last
    /\ Nearest(e.staleness_seconds, report.now - last, Second)
    /\ (report.now - last = 90 * Second) => e.staleness_seconds = 90

\* C11: in a report over an unchanging table every stored log and every
\* stored monitor is listed once, and its staleness_seconds is the instant
\* captured at the start of the snapshot minus the greatest stored_at of its
\* rows, rounded to whole seconds; 90 when that row was stored 90s before.
C11_StalenessFromCapturedNow ==
    statsPc = "replied" =>
        /\ {e.log_id : e \in report.logs} = {r.logId : r \in Rows}
        /\ {e.monitor_id : e \in report.monitors} = {r.monitorId : r \in Rows}
        /\ report.now <= clock
        /\ \A e \in report.logs : StaleBy(e, LastStored(RowsOfLog(e.log_id)))
        /\ \A e \in report.monitors :
              StaleBy(e, LastStored({r \in Rows : r.monitorId = e.monitor_id}))

\* C11: the only row of a log was stored 90s before the snapshot's instant,
\* the clock has moved on since, and the log and its monitor report 90
C11_Witness ==
    /\ statsPc = "replied"
    /\ Len(store) = 1
    /\ store[1].storedAt = report.now - 90 * Second
    /\ \E e \in report.logs : e.staleness_seconds = 90 /\ e.sth_count = 1
    /\ \E e \in report.monitors : e.staleness_seconds = 90

RECURSIVE SumSthCount(_)
\* the sum of the sth_count fields of a set of entries
SumSthCount(entries) ==
    IF entries = {} THEN 0
    ELSE LET e == CHOOSE x \in entries : TRUE
         IN  e.sth_count + SumSthCount(entries \ {e})

\* C12: every report is a view of the table at one instant, also when rows
\* are inserted while it is computed: total_sths is the sum of the per-log
\* and of the per-monitor sth_count, each log's sth_count is the sum of its
\* monitors' sub-counts, and each log has the same monitor_count in the
\* breakdown and in the consistency summary.
C12_ReportOfOneInstant ==
    statsPc = "replied" =>
        /\ report.total_sths = SumSthCount(report.logs)
        /\ report.total_sths = SumSthCount(report.monitors)
        /\ \A e \in report.logs :
              /\ e.sth_count = SumSthCount(e.monitors)
              /\ \A c \in report.consistency :
                    c.log_id = e.log_id => c.monitor_count = e.monitor_count

\* the monitors with a stored row of log l
MonitorsOfLog(l) == {r.monitorId : r \in RowsOfLog(l)}

\* the report attributes log l to exactly the monitors with a stored row of it
AttributedToStoredMonitors(l) ==
    /\ \A e \in report.logs :
          e.log_id = l =>
              /\ {m.monitor_id : m \in e.monitors} = MonitorsOfLog(l)
              /\ e.monitor_count = Cardinality(MonitorsOfLog(l))
              /\ \A m \in e.monitors :
                    m.sth_count
                       = Cardinality({r \in RowsOfLog(l) : r.monitorId = m.monitor_id})
    /\ \A c \in report.consistency :
          c.log_id = l =>
              /\ {x.monitor_id : x \in c.latest_per_monitor} = MonitorsOfLog(l)
              /\ c.monitor_count = Cardinality(MonitorsOfLog(l))
              /\ \A x \in c.latest_per_monitor : IsLatestOfMonitor(l, x)
              /\ c.consistent = ~(\E a, b \in c.latest_per_monitor : Disagree(a, b))

\* C13: a submission of a triple that is already stored, by whichever
\* monitor, is answered with the stored row and stores nothing, so no row is
\* attributed to the submitting monitor; a report then lists for each log
\* exactly the monitors that have a stored row of it, in the per-monitor
\* sub-counts, in latest_per_monitor and in both monitor_count, and derives
\* consistent from those monitors' latest rows only: with the table as it
\* was before the submission, they are as they were.
C13_DuplicateLosesAttribution ==
    [][/\ \A p \in Procs :
             (Replies(p) /\ SameTriple(req[p].body) # {}) =>
                 /\ resp'[p].status = 200
                 /\ store' = store
                 /\ \E i \in SameTriple(req[p].body) :
                       resp'[p].body.monitor_id = store[i].monitorId
       /\ statsPc = "replied" =>
             \A l \in {r.logId : r \in Rows} : AttributedToStoredMonitors(l)]_vars

\* C13: m2 submitted the triple stored for m1 and got m1's row back; m2
\* has no row, and the report taken afterwards knows one monitor, m1
C13_Witness ==
    /\ statsPc = "replied"
    /\ pc[1] = "replied"
    /\ req[1].body.monitor_id.v = "m2"
    /\ resp[1].status = 200
    /\ resp[1].body.monitor_id = "m1"
    /\ \A r \in Rows : r.monitorId = "m1"
    /\ report.unique_monitors = 1
    /\ \E e \in report.logs :
          e.monitor_count = 1 /\ \A m \in e.monitors : m.monitor_id = "m1"
    /\ \E c \in report.consistency :
          /\ c.monitor_count = 1
          /\ c.consistent
          /\ \A x \in c.latest_per_monitor : x.monitor_id = "m1"

\* the rows of log l that are a latest row of their monitor, by stored_at
LatestRows(l) ==
    {r \in RowsOfLog(l) :
        \A o \in RowsOfLog(l) : o.monitorId = r.monitorId => o.storedAt <= r.storedAt}

\* two monitors' rows of one tree size with different root hashes
RowsConflict(a, b) ==
    /\ a.monitorId # b.monitorId
    /\ a.treeSize = b.treeSize
    /\ a.rootHash # b.rootHash

\* C14: a log none of whose monitors' latest rows (by stored_at) share a
\* tree_size with different root_hash is reported consistent=true,
\* whatever older rows of the log are stored, conflicting ones included.
C14_SupersededConflictNotReported ==
    statsPc = "replied" =>
        \A c \in report.consistency :
            (~ \E a, b \in LatestRows(c.log_id) : RowsConflict(a, b)) => c.consistent

\* C14: the first two rows, of two monitors, conflict and were the
\* monitors' latest when the second was stored; each monitor stored a
\* newer row since, the latest rows do not conflict, and the log is
\* reported consistent
C14_Witness ==
    /\ statsPc = "replied"
    /\ Len(store) = 4
    /\ RowsConflict(store[1], store[2])
    /\ store[3].monitorId # store[4].monitorId
    /\ store[3].storedAt > store[2].storedAt
    /\ store[4].storedAt > store[2].storedAt
    /\ ~ \E a, b \in LatestRows(store[1].logId) : RowsConflict(a, b)
    /\ \E c \in report.consistency :
          /\ c.log_id = store[1].logId
          /\ c.monitor_count = 2
          /\ c.consistent

\* C15: in every report the staleness_seconds of every log and of every
\* monitor is at least 0, also when a row is inserted after the snapshot
\* captured its instant and before the grouped max(stored_at) is read.
C15_StalenessNonNegative ==
    statsPc = "replied" =>
        /\ \A e \in report.logs : e.staleness_seconds >= 0
        /\ \A e \in report.monitors : e.staleness_seconds >= 0

====
